---- MODULE Spec2Model ----
(***************************************************************************)
(* A model of prediction.js: the batch pipeline                            *)
(*   loadCSV -> prepareData -> trainModel -> predictPrices ->              *)
(*   calculateErrorMetrics -> getNext30Weekdays -> predictPrices ->        *)
(*   saveToCSV                                                             *)
(* run by main() inside one try/catch.                                     *)
(*                                                                         *)
(* Representation.                                                         *)
(*  - A JavaScript number is a record: [k |-> "fin", n, d] is the rational *)
(*    n/d in lowest terms (d > 0), [k |-> "nan"] is NaN, [k |-> "inf", s]  *)
(*    is s * Infinity.  Math.sqrt of a non-square is kept exact as         *)
(*    [k |-> "sqrt", n, d].  Arithmetic follows IEEE-754 on the special    *)
(*    values (0/0 = NaN, x/0 = +-Infinity, Infinity * 0 = NaN); rounding   *)
(*    of finite results is not modelled.                                   *)
(*  - A timestamp is counted in minutes, not milliseconds (every Date the  *)
(*    program builds is a whole minute), so that it fits 32-bit integers.    *)
(*  - The host timezone is a fixed offset tz = local - UTC in minutes      *)
(*    (no daylight-saving transitions).                                    *)
(*  - A string that the program scans is a tuple of one-character strings; *)
(*    a "DD-MMM-YYYY" date string is the tuple of its three "-"-separated  *)
(*    parts; a "YYYY-MM-DD" string is the tuple <<y, m, d>>.               *)
(***************************************************************************)
EXTENDS Integers, Sequences, FiniteSets, TLC

VARIABLES
  file,               \* the input file: whether it can be read, the rows Papa.parse yields
  tz,                 \* host timezone offset, minutes east of UTC
  outWritable,        \* whether fs.writeFileSync can write the output path
  pc,                 \* main's position
  data,               \* main: data
  prep,               \* main: { xs, ys, minDate, maxDate, minPrice, maxPrice }
  model,              \* main: model (the dense layer's kernel w and bias b)
  predictions,        \* main: predictions
  metrics,            \* main: { mse, rmse }
  next30Weekdays,     \* main: next30Weekdays
  futurePredictions,  \* main: futurePredictions
  outFile,            \* the output file's content
  writes,             \* number of fs.writeFileSync calls that wrote
  error,              \* what the top-level catch logged (console.error)
  warnings,           \* number of console.warn("Prediction is NaN") calls
  calls,              \* the scaling arguments of each predictPrices call
  trace,              \* the steps of main that completed, in order
  fnArgs,             \* function-level specifications: the arguments
  fnResult            \* function-level specifications: the returned value

vars == <<file, tz, outWritable, pc, data, prep, model, predictions, metrics,
          next30Weekdays, futurePredictions, outFile, writes, error, warnings,
          calls, trace, fnArgs, fnResult>>

mainVars == <<file, tz, outWritable, pc, data, prep, model, predictions,
              metrics, next30Weekdays, futurePredictions, outFile, writes,
              error, warnings, calls, trace>>

(***************************************************************************)
(* Bounds of the model.                                                    *)
(***************************************************************************)
MaxRows == 2
MaxLen == 2
NumStartDays == 7

(***************************************************************************)
(* JavaScript numbers.                                                     *)
(***************************************************************************)
Undefined == [k |-> "undefined"]
None == [k |-> "none"]
NaN == [k |-> "nan"]
PosInf == [k |-> "inf", s |-> 1]
NegInf == [k |-> "inf", s |-> -1]

Abs(a) == IF a < 0 THEN -a ELSE a

Sign(a) == IF a < 0 THEN -1 ELSE IF a > 0 THEN 1 ELSE 0

RECURSIVE GCD(_, _)
GCD(a, b) == IF b = 0 THEN a ELSE GCD(b, a % b)

Fin(n, d) ==
  LET g == GCD(Abs(n), Abs(d))
      s == IF d < 0 THEN -1 ELSE 1
  IN  [k |-> "fin", n |-> (s * n) \div g, d |-> (s * d) \div g]

Num(n) == [k |-> "fin", n |-> n, d |-> 1]
Zero == Num(0)

\* ToNumber: undefined converts to NaN.
ToNumber(v) == IF v = Undefined THEN NaN ELSE v

\* The global isNaN(v).
IsNaN(v) == ToNumber(v).k = "nan"

IsFin(v) == v.k = "fin"

SignOf(x) == IF x.k = "inf" THEN x.s ELSE Sign(x.n)

Inf(s) == [k |-> "inf", s |-> s]

Neg(x) ==
  CASE x.k = "nan" -> NaN
    [] x.k = "inf" -> Inf(-x.s)
    [] OTHER -> Fin(-x.n, x.d)

Add(a, b) ==
  LET x == ToNumber(a)
      y == ToNumber(b)
  IN  CASE x.k = "nan" \/ y.k = "nan" -> NaN
        [] x.k = "inf" /\ y.k = "inf" -> IF x.s = y.s THEN x ELSE NaN
        [] x.k = "inf" -> x
        [] y.k = "inf" -> y
        [] OTHER -> Fin(x.n * y.d + y.n * x.d, x.d * y.d)

Sub(a, b) == Add(a, Neg(ToNumber(b)))

Mul(a, b) ==
  LET x == ToNumber(a)
      y == ToNumber(b)
  IN  CASE x.k = "nan" \/ y.k = "nan" -> NaN
        [] x.k = "inf" \/ y.k = "inf" ->
             IF SignOf(x) * SignOf(y) = 0 THEN NaN ELSE Inf(SignOf(x) * SignOf(y))
        [] OTHER -> Fin(x.n * y.n, x.d * y.d)

Div(a, b) ==
  LET x == ToNumber(a)
      y == ToNumber(b)
  IN  CASE x.k = "nan" \/ y.k = "nan" -> NaN
        [] x.k = "inf" /\ y.k = "inf" -> NaN
        [] x.k = "inf" -> Inf(IF SignOf(y) < 0 THEN -x.s ELSE x.s)
        [] y.k = "inf" -> Zero
        [] y.n = 0 -> IF x.n = 0 THEN NaN ELSE Inf(Sign(x.n))
        [] OTHER -> Fin(x.n * y.d, x.d * y.n)

\* a < b on numbers that are not NaN.
Less(x, y) ==
  CASE x.k = "inf" /\ y.k = "inf" -> x.s < y.s
    [] x.k = "inf" -> x.s < 0
    [] y.k = "inf" -> y.s > 0
    [] OTHER -> x.n * y.d < y.n * x.d

RECURSIVE FoldMax(_, _, _)
FoldMax(s, i, acc) ==
  IF i > Len(s) THEN acc
  ELSE FoldMax(s, i + 1, IF Less(acc, s[i]) THEN s[i] ELSE acc)

RECURSIVE FoldMin(_, _, _)
FoldMin(s, i, acc) ==
  IF i > Len(s) THEN acc
  ELSE FoldMin(s, i + 1, IF Less(s[i], acc) THEN s[i] ELSE acc)

\* Math.max(...s) and Math.min(...s) of numbers none of which is NaN.
MathMax(s) == FoldMax(s, 1, NegInf)
MathMin(s) == FoldMin(s, 1, PosInf)

RECURSIVE ISqrtIn(_, _, _)
ISqrtIn(a, lo, hi) ==
  IF hi - lo <= 1 THEN lo
  ELSE LET mid == (lo + hi) \div 2
       IN  IF mid * mid <= a THEN ISqrtIn(a, mid, hi) ELSE ISqrtIn(a, lo, mid)

\* The integer part of the square root of a >= 0 (by bisection).
ISqrt(a) == ISqrtIn(a, 0, IF a < 46340 THEN a + 1 ELSE 46341)

\* Math.sqrt.
MathSqrt(x) ==
  CASE x.k = "nan" -> NaN
    [] x.k = "inf" -> IF x.s > 0 THEN PosInf ELSE NaN
    [] x.n < 0 -> NaN
    [] ISqrt(x.n) * ISqrt(x.n) = x.n /\ ISqrt(x.d) * ISqrt(x.d) = x.d ->
         Fin(ISqrt(x.n), ISqrt(x.d))
    [] OTHER -> [k |-> "sqrt", n |-> x.n, d |-> x.d]

\* Number.prototype.toFixed(2): the text "NaN", "Infinity", "-Infinity", or
\* the decimal with two fraction digits, given by its signed number of
\* hundredths, rounded half away from zero.
Hundredths(n, d) == (200 * n + d) \div (2 * d)

Text(t) == [text |-> t, hundredths |-> 0]
Decimal(h) == [text |-> "decimal", hundredths |-> h]

ToFixed2(x) ==
  CASE x.k = "nan" -> Text("NaN")
    [] x.k = "inf" -> IF x.s > 0 THEN Text("Infinity") ELSE Text("-Infinity")
    [] x.k = "sqrt" -> Decimal((ISqrt(40000 * x.n * x.d) + x.d) \div (2 * x.d))
    [] OTHER -> Decimal(Sign(x.n) * Hundredths(Abs(x.n), x.d))

(***************************************************************************)
(* The host's Date: the proleptic Gregorian calendar over day numbers      *)
(* counted from 1970-01-01, and timestamps in minutes.                     *)
(***************************************************************************)
MinutesPerDay == 24 * 60

DaysFromCivil(y, m, d) ==
  LET yy == IF m <= 2 THEN y - 1 ELSE y
      era == yy \div 400
      yoe == yy - era * 400
      mp == IF m > 2 THEN m - 3 ELSE m + 9
      doy == (153 * mp + 2) \div 5 + d - 1
      doe == yoe * 365 + yoe \div 4 - yoe \div 100 + doy
  IN  era * 146097 + doe - 719468

CivilFromDays(z) ==
  LET zz == z + 719468
      era == zz \div 146097
      doe == zz - era * 146097
      yoe == (doe - doe \div 1460 + doe \div 36524 - doe \div 146096) \div 365
      doy == doe - (365 * yoe + yoe \div 4 - yoe \div 100)
      mp == (5 * doy + 2) \div 153
      d == doy - (153 * mp + 2) \div 5 + 1
      m == IF mp < 10 THEN mp + 3 ELSE mp - 9
      y == yoe + era * 400 + (IF m <= 2 THEN 1 ELSE 0)
  IN  <<y, m, d>>

\* Day of the week of a day number: 0 is Sunday; 1970-01-01 was a Thursday.
WeekDay(day) == (day + 4) % 7

UTCDay(t) == t \div MinutesPerDay
LocalDay(t, zone) == (t + zone) \div MinutesPerDay

\* Date.prototype.getDay(): the local day of the week.
GetDay(t, zone) == WeekDay(LocalDay(t, zone))

\* Date.prototype.getDate(): the local day of the month.
GetDate(t, zone) == CivilFromDays(LocalDay(t, zone))[3]

\* Date.prototype.setDate(dayOfMonth): the local year, month and time of day
\* are kept; a day of the month past the month's end rolls over.
SetDate(t, zone, dayOfMonth) ==
  LET local == t + zone
      civ == CivilFromDays(local \div MinutesPerDay)
      day == DaysFromCivil(civ[1], civ[2], 1) + dayOfMonth - 1
  IN  day * MinutesPerDay + (local % MinutesPerDay) - zone

\* Date.prototype.toISOString().split("T")[0]: the UTC calendar date.
ToISODate(t) == CivilFromDays(UTCDay(t))

\* The string "NaN-NaN-NaN": -1 stands for the text NaN in a date string.
InvalidISO == <<-1, -1, -1>>

\* new Date("YYYY-MM-DD").getTime(): a date-only string is UTC midnight.
DateParseISO(iso) ==
  IF iso = InvalidISO THEN NaN
  ELSE Num(DaysFromCivil(iso[1], iso[2], iso[3]) * MinutesPerDay)

(***************************************************************************)
(* getNext30Weekdays (lines 172-188).                                      *)
(***************************************************************************)
WeekdayCount == 30

RECURSIVE WeekdayLoop(_, _, _)
WeekdayLoop(weekdays, currentDate, zone) ==
  IF Len(weekdays) >= WeekdayCount THEN weekdays
  ELSE LET dayOfWeek == GetDay(currentDate, zone)
           pushed == IF dayOfWeek # 0 /\ dayOfWeek # 6
                     THEN Append(weekdays, ToISODate(currentDate))
                     ELSE weekdays
       IN  WeekdayLoop(pushed,
                       SetDate(currentDate, zone, GetDate(currentDate, zone) + 1),
                       zone)

\* startDate is a valid Date, given by its timestamp.
GetNext30Weekdays(startDate, zone) == WeekdayLoop(<<>>, startDate, zone)

(***************************************************************************)
(* calculateErrorMetrics (lines 135-147).                                  *)
(***************************************************************************)
\* s[i] of a JavaScript array, 1-based here: undefined past the end.
At(s, i) == IF i \in DOMAIN s THEN s[i] ELSE Undefined

RECURSIVE ReduceSquaredErrors(_, _, _, _)
ReduceSquaredErrors(actualPrices, predictedPrices, i, sum) ==
  IF i > Len(actualPrices) THEN sum
  ELSE LET err == Sub(actualPrices[i], At(predictedPrices, i))
       IN  ReduceSquaredErrors(actualPrices, predictedPrices, i + 1,
                               Add(sum, Mul(err, err)))

CalculateErrorMetricsByPredictedLength(actualPrices, predictedPrices) ==
  LET mse == Div(ReduceSquaredErrors(actualPrices, predictedPrices, 1, Zero),
                 Num(Len(predictedPrices)))
  IN  [mse |-> mse, rmse |-> MathSqrt(mse)]

CalculateErrorMetrics(actualPrices, predictedPrices) ==
  LET mse == Div(ReduceSquaredErrors(actualPrices, predictedPrices, 1, Zero),
                 Num(Len(actualPrices)))
  IN  [mse |-> mse, rmse |-> MathSqrt(mse)]

(***************************************************************************)
(* Strings and their conversions.                                          *)
(***************************************************************************)
Str(chars) == [k |-> "string", s |-> chars]

DigitValue ==
  "0" :> 0 @@ "1" :> 1 @@ "2" :> 2 @@ "3" :> 3 @@ "4" :> 4 @@
  "5" :> 5 @@ "6" :> 6 @@ "7" :> 7 @@ "8" :> 8 @@ "9" :> 9

IsDigit(c) == c \in DOMAIN DigitValue

\* The run of digits of s from position i: its value, its length and the
\* position after it.
RECURSIVE ScanDigits(_, _, _, _)
ScanDigits(s, i, val, cnt) ==
  IF i <= Len(s) /\ IsDigit(s[i])
  THEN ScanDigits(s, i + 1, 10 * val + DigitValue[s[i]], cnt + 1)
  ELSE [val |-> val, cnt |-> cnt, next |-> i]

RECURSIVE Pow10(_)
Pow10(e) == IF e = 0 THEN 1 ELSE 10 * Pow10(e - 1)

\* parseFloat(s): the longest decimal prefix (sign, digits, fraction), NaN
\* when there is none; an exponent is not modelled.
ParseFloat(s) ==
  LET neg == Len(s) >= 1 /\ s[1] = "-"
      start == IF Len(s) >= 1 /\ s[1] \in {"-", "+"} THEN 2 ELSE 1
      int == ScanDigits(s, start, 0, 0)
      dot == int.next <= Len(s) /\ s[int.next] = "."
      frac == IF dot THEN ScanDigits(s, int.next + 1, 0, 0)
              ELSE [val |-> 0, cnt |-> 0, next |-> int.next]
      mag == Fin(int.val * Pow10(frac.cnt) + frac.val, Pow10(frac.cnt))
  IN  IF int.cnt + frac.cnt = 0 THEN NaN
      ELSE IF neg THEN Neg(mag) ELSE mag

\* ToNumber of a string of digits (what new Date(year, month, day) applies
\* to its string arguments): the empty string is 0, anything else NaN.
StringToNumber(s) ==
  LET run == ScanDigits(s, 1, 0, 0)
  IN  IF run.next > Len(s) THEN Num(run.val) ELSE NaN

\* str.replace(/,/g, "")
RemoveCommas(s) == SelectSeq(s, LAMBDA c : c # ",")

\* new Date(Date.parse(monthStr + " 1, 2020")).getMonth()
MonthNames ==
  "Jan" :> 0 @@ "Feb" :> 1 @@ "Mar" :> 2 @@ "Apr" :> 3 @@ "May" :> 4 @@
  "Jun" :> 5 @@ "Jul" :> 6 @@ "Aug" :> 7 @@ "Sep" :> 8 @@ "Oct" :> 9 @@
  "Nov" :> 10 @@ "Dec" :> 11

MonthOf(monthStr) ==
  IF monthStr \in DOMAIN MonthNames THEN Num(MonthNames[monthStr]) ELSE NaN

\* new Date(year, month, day): local midnight of the day, the month and the
\* day of the month rolling over; an Invalid Date (NaN) when a field is NaN.
NewLocalDate(year, month, day, zone) ==
  IF IsNaN(year) \/ IsNaN(month) \/ IsNaN(day) THEN NaN
  ELSE LET y == IF year.n \in 0 .. 99 THEN 1900 + year.n ELSE year.n
           first == DaysFromCivil(y + (month.n \div 12), (month.n % 12) + 1, 1)
       IN  Num((first + day.n - 1) * MinutesPerDay - zone)

(***************************************************************************)
(* formatDateToISO (lines 27-40): dateStr is the "DD-MMM-YYYY" string,     *)
(* given by its three "-"-separated parts, or undefined.                   *)
(***************************************************************************)
TypeError == "TypeError"
DataError == "Data contains NaN values"

Thrown(e) == [thrown |-> e]

FormatDateToISO(dateStr, zone) ==
  IF dateStr.k # "string" THEN Thrown(TypeError)
  ELSE LET day == dateStr.s[1]
           monthStr == dateStr.s[2]
           year == dateStr.s[3]
           month == MonthOf(monthStr)
           date == NewLocalDate(StringToNumber(year), month, StringToNumber(day), zone)
       IN  IF IsNaN(date) THEN [thrown |-> "none", iso |-> InvalidISO]
           ELSE [thrown |-> "none", iso |-> CivilFromDays(LocalDay(date.n, zone))]

(***************************************************************************)
(* prepareData (lines 44-79).                                              *)
(***************************************************************************)
\* row.Date -> new Date(formatDateToISO(row.Date)).getTime()
RowTimestamp(row, zone) ==
  LET formatted == FormatDateToISO(row.Date, zone)
  IN  IF formatted.thrown # "none" THEN Thrown(formatted.thrown)
      ELSE DateParseISO(formatted.iso)

\* row -> parseFloat(row["close"].replace(/,/g, ""))
RowPrice(row) ==
  IF row.close.k # "string" THEN Thrown(TypeError)
  ELSE ParseFloat(RemoveCommas(row.close.s))

Map1(s, Op(_)) == [i \in 1 .. Len(s) |-> Op(s[i])]

Some(s, P(_)) == \E i \in 1 .. Len(s) : P(s[i])

NormalizeGuarded(value, min, max) ==
  IF max = min THEN Zero ELSE Div(Sub(value, min), Sub(max, min))

\* line 65
Normalize(value, min, max) == Div(Sub(value, min), Sub(max, min))

PrepareData(rows, zone) ==
  LET dates == Map1(rows, LAMBDA row : RowTimestamp(row, zone))
      prices == Map1(rows, LAMBDA row : RowPrice(row))
  IN  IF Some(dates, LAMBDA v : v = Thrown(TypeError)) THEN Thrown(TypeError)
      ELSE IF Some(prices, LAMBDA v : v = Thrown(TypeError)) THEN Thrown(TypeError)
      ELSE IF Some(dates, IsNaN) \/ Some(prices, IsNaN) THEN Thrown(DataError)
      ELSE LET maxDate == MathMax(dates)
               minDate == MathMin(dates)
               maxPrice == MathMax(prices)
               minPrice == MathMin(prices)
           IN  [thrown |-> "none",
                xs |-> Map1(dates, LAMBDA date : Normalize(date, minDate, maxDate)),
                ys |-> Map1(prices, LAMBDA price : Normalize(price, minPrice, maxPrice)),
                minDate |-> minDate, maxDate |-> maxDate,
                minPrice |-> minPrice, maxPrice |-> maxPrice]

(***************************************************************************)
(* trainModel (lines 83-101).  The fit is the learning library's: what it  *)
(* returns is any kernel w and bias b from a small set when the training   *)
(* data are numbers, and NaN weights when an entry of xs or ys is NaN      *)
(* (every gradient is then NaN); the fit may also fail.                    *)
(***************************************************************************)
FitWeights == {[w |-> Num(w), b |-> Num(b)] : w \in {-1, 0, 1}, b \in {0, 1}}

FitOutcomes(xs, ys) ==
  IF Some(xs, IsNaN) \/ Some(ys, IsNaN)
  THEN {[w |-> NaN, b |-> NaN]}
  ELSE FitWeights

\* model.predict on one input: the dense layer kernel * x + bias.
ModelPredict(m, x) == Add(Mul(m.w, x), m.b)

(***************************************************************************)
(* predictPrices (lines 105-131).                                          *)
(***************************************************************************)
\* line 121
Denormalize(prediction, minPrice, maxPrice) ==
  Add(Mul(prediction, Sub(maxPrice, minPrice)), minPrice)

\* The value the model predicts for a date, denormalized (lines 113-121).
PredictedValue(m, date, minDate, maxDate, minPrice, maxPrice) ==
  Denormalize(ModelPredict(m, Div(Sub(date, minDate), Sub(maxDate, minDate))),
              minPrice, maxPrice)

EntryKeepingNaN(value) == value

\* lines 122-126
PredictedEntry(value) == IF IsNaN(value) THEN Zero ELSE value

Count(s, P(_)) == Cardinality({i \in 1 .. Len(s) : P(s[i])})

\* The returned array, and the number of warnings printed.
PredictPrices(m, dates, minDate, maxDate, minPrice, maxPrice) ==
  LET values == Map1(dates, LAMBDA date :
                  PredictedValue(m, date, minDate, maxDate, minPrice, maxPrice))
  IN  [out |-> Map1(values, PredictedEntry),
       warned |-> Count(values, IsNaN)]

(***************************************************************************)
(* saveToCSV (lines 151-168): the file Papa.unparse yields, its header and *)
(* its rows, each row's fields in the order of the columns.                *)
(***************************************************************************)
Columns == <<"Date", "PredictedPrice", "RMSE", "MSE">>

CleanedRow(row) ==
  [Date |-> row.Date,
   PredictedPrice |-> ToFixed2(row.PredictedPrice),
   RMSE |-> ToFixed2(row.RMSE),
   MSE |-> ToFixed2(row.MSE)]

CsvSwappedColumns(results) ==
  [header |-> <<"Date", "PredictedPrice", "MSE", "RMSE">>,
   rows |-> Map1(results, LAMBDA row :
              LET c == CleanedRow(row)
              IN  <<c.Date, c.PredictedPrice, c.MSE, c.RMSE>>)]

Csv(results) ==
  [header |-> Columns,
   rows |-> Map1(results, LAMBDA row :
              LET c == CleanedRow(row)
              IN  <<c.Date, c.PredictedPrice, c.RMSE, c.MSE>>)]

(***************************************************************************)
(* The environment the model draws from.                                   *)
(***************************************************************************)
\* Host timezones: New York (EST), UTC, Berlin (CET), Kolkata (IST).
TimeZones == {-300, 0, 60, 330}

\* The function has not returned yet / has returned v.
Pending == [done |-> FALSE, value |-> <<>>]
Returned(v) == [done |-> TRUE, value |-> v]

\* main has not been started (the function-level specifications).
MainIdle ==
  /\ file = [readable |-> FALSE, rows |-> <<>>]
  /\ tz = 0
  /\ outWritable = FALSE
  /\ pc = "idle"
  /\ data = <<>>
  /\ prep = None
  /\ model = None
  /\ predictions = <<>>
  /\ metrics = None
  /\ next30Weekdays = <<>>
  /\ futurePredictions = <<>>
  /\ outFile = None
  /\ writes = 0
  /\ error = None
  /\ warnings = 0
  /\ calls = <<>>
  /\ trace = <<>>

(***************************************************************************)
(* SpecWeekdays: getNext30Weekdays applied to a start date under a host    *)
(* timezone.  The start dates are midnight and noon UTC of NumStartDays    *)
(* consecutive days from Monday 2024-04-01.                                *)
(***************************************************************************)
FirstStartDay == DaysFromCivil(2024, 4, 1)

StartDates ==
  {day * MinutesPerDay + tod :
     day \in FirstStartDay .. FirstStartDay + NumStartDays - 1,
     tod \in {0, 12 * 60}}

InitWeekdays ==
  /\ MainIdle
  /\ fnArgs \in [fn : {"getNext30Weekdays"}, startDate : StartDates, zone : TimeZones]
  /\ fnResult = Pending

CallGetNext30Weekdays ==
  /\ fnArgs.fn = "getNext30Weekdays"
  /\ fnResult = Pending
  /\ fnResult' = Returned(GetNext30Weekdays(fnArgs.startDate, fnArgs.zone))
  /\ UNCHANGED <<fnArgs, mainVars>>

NextWeekdays == CallGetNext30Weekdays

SpecWeekdays == InitWeekdays /\ [][NextWeekdays]_vars

(***************************************************************************)
(* SpecMetrics: calculateErrorMetrics applied to two arrays of numbers of  *)
(* up to MaxLen entries each.                                              *)
(***************************************************************************)
MetricValues == {Num(0), Num(1), Num(3)}

RECURSIVE SeqsUpTo(_, _)
SeqsUpTo(S, n) ==
  IF n = 0 THEN {<<>>}
  ELSE LET shorter == SeqsUpTo(S, n - 1)
       IN  shorter \cup {Append(s, x) : s \in {t \in shorter : Len(t) = n - 1}, x \in S}

InitMetrics ==
  /\ MainIdle
  /\ fnArgs \in [fn : {"calculateErrorMetrics"},
                 actual : SeqsUpTo(MetricValues, MaxLen),
                 predicted : SeqsUpTo(MetricValues, MaxLen)]
  /\ fnResult = Pending

CallCalculateErrorMetrics ==
  /\ fnArgs.fn = "calculateErrorMetrics"
  /\ fnResult = Pending
  /\ fnResult' = Returned(CalculateErrorMetrics(fnArgs.actual, fnArgs.predicted))
  /\ UNCHANGED <<fnArgs, mainVars>>

NextMetrics == CallCalculateErrorMetrics

SpecMetrics == InitMetrics /\ [][NextMetrics]_vars

(***************************************************************************)
(* Spec: one run of main (lines 192-262).                                  *)
(*                                                                         *)
(* The input file is unreadable, or holds up to MaxRows rows, each one of  *)
(* InputRows as Papa.parse (header, dynamicTyping) yields it.  Prices are  *)
(* small so that the exact arithmetic stays within 32-bit integers.        *)
(***************************************************************************)
Year2024 == <<"2", "0", "2", "4">>

DateString(day, monthStr) == Str(<<day, monthStr, Year2024>>)

Monday == DateString(<<"0", "1">>, "Apr")
Wednesday == DateString(<<"0", "3">>, "Apr")
Friday == DateString(<<"0", "5">>, "Apr")

\* A close that carries a thousands separator stays a string under
\* dynamicTyping: "1,0", "1,2" and "1,3.5" parse to 10, 12 and 13.5.
Close10 == Str(<<"1", ",", "0">>)
Close12 == Str(<<"1", ",", "2">>)
Close13 == Str(<<"1", ",", "3", ".", "5">>)

GoodRows ==
  { [Date |-> Monday, close |-> Close10],
    [Date |-> Wednesday, close |-> Close12],
    [Date |-> Friday, close |-> Close13],
    [Date |-> Friday, close |-> Close10] }

\* An unparseable month, an unparseable price, a missing Date, a missing
\* close.
BadRows ==
  { [Date |-> DateString(<<"0", "1">>, "Xyz"), close |-> Close10],
    [Date |-> Monday, close |-> Str(<<"n", ",", "a">>)],
    [Date |-> Undefined, close |-> Close10],
    [Date |-> Monday, close |-> Undefined] }

\* dynamicTyping turns a close without a thousands separator into a number.
TypedRows == { [Date |-> Monday, close |-> Num(10)] }

InputRows == GoodRows \cup BadRows \cup TypedRows

OldFile == [header |-> <<"old">>, rows |-> <<>>]

NoError == "none"

Init ==
  /\ file \in {[readable |-> FALSE, rows |-> <<>>]}
               \cup {[readable |-> TRUE, rows |-> rows] : rows \in SeqsUpTo(InputRows, MaxRows)}
  /\ tz \in TimeZones
  /\ outWritable \in BOOLEAN
  /\ pc = "loadCSV"
  /\ data = <<>>
  /\ prep = None
  /\ model = None
  /\ predictions = <<>>
  /\ metrics = None
  /\ next30Weekdays = <<>>
  /\ futurePredictions = <<>>
  /\ outFile = OldFile
  /\ writes = 0
  /\ error = NoError
  /\ warnings = 0
  /\ calls = <<>>
  /\ trace = <<>>
  /\ fnArgs = None
  /\ fnResult = Pending

LeftTruncatedByCatch(f) == [header |-> <<>>, rows |-> <<>>]

\* What the catch of lines 259-261 leaves of the output file: it only logs.
LeftByCatch(f) == f

\* A step throws: the catch logs the error and main returns.
Throw(e) ==
  /\ pc' = "exit"
  /\ error' = e
  /\ outFile' = LeftByCatch(outFile)

Completed(step, next) ==
  /\ pc' = next
  /\ trace' = Append(trace, step)

\* line 199
LoadCSV ==
  /\ pc = "loadCSV"
  /\ IF file.readable
     THEN /\ data' = file.rows
          /\ Completed("loadCSV", "prepareData")
          /\ UNCHANGED <<error, outFile>>
     ELSE /\ Throw("ENOENT")
          /\ UNCHANGED <<data, trace>>
  /\ UNCHANGED <<file, tz, outWritable, prep, model, predictions, metrics,
                 next30Weekdays, futurePredictions, writes, warnings, calls,
                 fnArgs, fnResult>>

\* line 200
PrepareDataStep ==
  /\ pc = "prepareData"
  /\ LET r == PrepareData(data, tz)
     IN  IF r.thrown = "none"
         THEN /\ prep' = r
              /\ Completed("prepareData", "trainModel")
              /\ UNCHANGED <<error, outFile>>
         ELSE /\ Throw(r.thrown)
              /\ UNCHANGED <<prep, trace>>
  /\ UNCHANGED <<file, tz, outWritable, data, model, predictions, metrics,
                 next30Weekdays, futurePredictions, writes, warnings, calls,
                 fnArgs, fnResult>>

\* line 204
TrainModelStep ==
  /\ pc = "trainModel"
  /\ \E fitted \in BOOLEAN :
       IF fitted
       THEN /\ model' \in FitOutcomes(prep.xs, prep.ys)
            /\ Completed("trainModel", "predictTraining")
            /\ UNCHANGED <<error, outFile>>
       ELSE /\ Throw("fit failed")
            /\ UNCHANGED <<model, trace>>
  /\ UNCHANGED <<file, tz, outWritable, data, prep, predictions, metrics,
                 next30Weekdays, futurePredictions, writes, warnings, calls,
                 fnArgs, fnResult>>

Scaling(p) ==
  [minDate |-> p.minDate, maxDate |-> p.maxDate,
   minPrice |-> p.minPrice, maxPrice |-> p.maxPrice]

\* The scaling arguments of the call of lines 208-215.
TrainingCallScaling(p, dates) == Scaling(p)

FutureCallScalingRecomputed(p, dates) ==
  [Scaling(p) EXCEPT !.minDate = MathMin(dates), !.maxDate = MathMax(dates)]

\* The scaling arguments of the call of lines 235-242.
FutureCallScaling(p, dates) == Scaling(p)

\* lines 208-215
PredictTraining ==
  /\ pc = "predictTraining"
  /\ LET dates == Map1(prep.xs, LAMBDA date :
                    Add(Mul(date, Sub(prep.maxDate, prep.minDate)), prep.minDate))
         a == TrainingCallScaling(prep, dates)
         r == PredictPrices(model, dates, a.minDate, a.maxDate, a.minPrice, a.maxPrice)
     IN  /\ predictions' = r.out
         /\ warnings' = warnings + r.warned
         /\ calls' = Append(calls, a)
  /\ Completed("predictPrices", "calculateErrorMetrics")
  /\ UNCHANGED <<file, tz, outWritable, data, prep, model, metrics,
                 next30Weekdays, futurePredictions, outFile, writes, error,
                 fnArgs, fnResult>>

\* lines 219-222
ErrorMetricsStep ==
  /\ pc = "calculateErrorMetrics"
  /\ LET actualPrices == Map1(prep.ys, LAMBDA price :
                           Add(Mul(price, Sub(prep.maxPrice, prep.minPrice)), prep.minPrice))
     IN  metrics' = CalculateErrorMetrics(actualPrices, predictions)
  /\ Completed("calculateErrorMetrics", "getNext30Weekdays")
  /\ UNCHANGED <<file, tz, outWritable, data, prep, model, predictions,
                 next30Weekdays, futurePredictions, outFile, writes, error,
                 warnings, calls, fnArgs, fnResult>>

\* lines 226-230: data[0] is undefined when there is no row.
WeekdaysStep ==
  /\ pc = "getNext30Weekdays"
  /\ IF data = <<>>
     THEN /\ Throw(TypeError)
          /\ UNCHANGED <<next30Weekdays, trace>>
     ELSE LET firstDate == DateParseISO(FormatDateToISO(data[1].Date, tz).iso)
          IN  /\ next30Weekdays' = GetNext30Weekdays(firstDate.n, tz)
              /\ Completed("getNext30Weekdays", "predictFuture")
              /\ UNCHANGED <<error, outFile>>
  /\ UNCHANGED <<file, tz, outWritable, data, prep, model, predictions, metrics,
                 futurePredictions, writes, warnings, calls, fnArgs, fnResult>>

\* line 234
FutureDates(weekdays) == Map1(weekdays, DateParseISO)

\* lines 234-242
PredictFuture ==
  /\ pc = "predictFuture"
  /\ LET futureDates == FutureDates(next30Weekdays)
         a == FutureCallScaling(prep, futureDates)
         r == PredictPrices(model, futureDates, a.minDate, a.maxDate, a.minPrice, a.maxPrice)
     IN  /\ futurePredictions' = r.out
         /\ warnings' = warnings + r.warned
         /\ calls' = Append(calls, a)
  /\ Completed("predictPrices", "saveToCSV")
  /\ UNCHANGED <<file, tz, outWritable, data, prep, model, predictions, metrics,
                 next30Weekdays, outFile, writes, error, fnArgs, fnResult>>

\* lines 246-251
Results(weekdays, future, m) ==
  [index \in 1 .. Len(weekdays) |->
     [Date |-> weekdays[index],
      PredictedPrice |-> At(future, index),
      RMSE |-> m.rmse,
      MSE |-> m.mse]]

\* lines 246-258: fs.writeFileSync throws when the path cannot be written.
SaveStep ==
  /\ pc = "saveToCSV"
  /\ IF outWritable
     THEN /\ outFile' = Csv(Results(next30Weekdays, futurePredictions, metrics))
          /\ writes' = writes + 1
          /\ Completed("saveToCSV", "exit")
          /\ UNCHANGED error
     ELSE /\ Throw("EACCES")
          /\ UNCHANGED <<writes, trace>>
  /\ UNCHANGED <<file, tz, outWritable, data, prep, model, predictions, metrics,
                 next30Weekdays, futurePredictions, warnings, calls, fnArgs,
                 fnResult>>

Next ==
  \/ LoadCSV
  \/ PrepareDataStep
  \/ TrainModelStep
  \/ PredictTraining
  \/ ErrorMetricsStep
  \/ WeekdaysStep
  \/ PredictFuture
  \/ SaveStep

Spec == Init /\ [][Next]_vars

(***************************************************************************)
(* Properties of getNext30Weekdays (SpecWeekdays).                         *)
(***************************************************************************)
WeekdaysReturned == fnArgs.fn = "getNext30Weekdays" /\ fnResult.done

\* The day number of a "YYYY-MM-DD" string.
DayOf(iso) == DaysFromCivil(iso[1], iso[2], iso[3])

IsWeekend(day) == WeekDay(day) \in {0, 6}

\* The first Monday after a day.
RECURSIVE NextMonday(_)
NextMonday(day) == IF WeekDay(day + 1) = 1 THEN day + 1 ELSE NextMonday(day + 1)

\* C1: whatever the start date and the host timezone, getNext30Weekdays
\* returns exactly 30 dates, none a Saturday or a Sunday, strictly
\* increasing, each gap one day or the three days from a Friday to the
\* Monday after it.
C1_ThirtyWeekdaysNoGaps ==
  WeekdaysReturned =>
    LET v == fnResult.value
    IN  /\ Len(v) = 30
        /\ \A i \in 1 .. Len(v) : ~IsWeekend(DayOf(v[i]))
        /\ \A i \in 1 .. Len(v) - 1 :
             \/ DayOf(v[i + 1]) - DayOf(v[i]) = 1
             \/ /\ DayOf(v[i + 1]) - DayOf(v[i]) = 3
                /\ WeekDay(DayOf(v[i])) = 5

\* C8: the scan starts at the start date inclusive.  For a start date that
\* is midnight UTC of a calendar day (what main passes): a weekday is the
\* first entry, a Saturday or Sunday makes the following Monday the first
\* entry, and after a Friday come the Monday to Thursday of the next week.
C8_StartDateInclusive ==
  (WeekdaysReturned /\ fnArgs.startDate % MinutesPerDay = 0) =>
    LET v == fnResult.value
        start == UTCDay(fnArgs.startDate)
    IN  /\ ~IsWeekend(start) => DayOf(v[1]) = start
        /\ IsWeekend(start) => DayOf(v[1]) = NextMonday(start)
        /\ WeekDay(start) = 5 =>
             \A i \in 2 .. 5 : DayOf(v[i]) = start + i + 1

(***************************************************************************)
(* Properties of calculateErrorMetrics (SpecMetrics).                      *)
(***************************************************************************)
MetricsReturned == fnArgs.fn = "calculateErrorMetrics" /\ fnResult.done

\* The sum of the squared differences of the first n entries.
RECURSIVE SumSquares(_, _, _)
SumSquares(a, p, n) ==
  IF n = 0 THEN Zero
  ELSE Add(SumSquares(a, p, n - 1), Mul(Sub(p[n], a[n]), Sub(p[n], a[n])))

\* The square of a number that Math.sqrt returned.
Squared(r) == IF r.k = "sqrt" THEN Fin(r.n, r.d) ELSE Mul(r, r)

\* mse is the mean of the squared differences of the first n entries and
\* rmse its non-negative square root.
IsMeanSquaredError(m, a, p, n) ==
  /\ IsFin(m.mse)
  /\ Mul(m.mse, Num(n)) = SumSquares(a, p, n)
  /\ Squared(m.rmse) = m.mse
  /\ m.rmse.n >= 0

\* C10 as stated: for arrays of equal length the MSE is the mean of the
\* squared differences, the RMSE its square root and the MSE the same with
\* the arguments exchanged; for arrays of different lengths the result is
\* not a defined number.
C10_UndefinedWhenLengthsDiffer ==
  MetricsReturned =>
    LET a == fnArgs.actual
        p == fnArgs.predicted
        m == fnResult.value
    IN  /\ (Len(a) = Len(p) /\ Len(a) > 0) =>
             /\ IsMeanSquaredError(m, a, p, Len(a))
             /\ CalculateErrorMetrics(p, a).mse = m.mse
        /\ Len(a) # Len(p) => IsNaN(m.mse)

\* C10 amended: as above for equal lengths; when the first array is the
\* longer (or is empty) the MSE and the RMSE are NaN; when the first array
\* is the shorter and not empty the result is a defined number, the mean
\* over the first array's length, the second array's extra entries ignored.
C10_MeanOverFirstArgument ==
  MetricsReturned =>
    LET a == fnArgs.actual
        p == fnArgs.predicted
        m == fnResult.value
    IN  /\ (Len(a) = Len(p) /\ Len(a) > 0) =>
             /\ IsMeanSquaredError(m, a, p, Len(a))
             /\ CalculateErrorMetrics(p, a).mse = m.mse
        /\ (Len(a) > Len(p) \/ Len(a) = 0) => IsNaN(m.mse) /\ IsNaN(m.rmse)
        /\ (Len(a) < Len(p) /\ Len(a) > 0) => IsMeanSquaredError(m, a, p, Len(a))

\* A shorter first array with a non-zero error has returned a number.
C10_Witness ==
  /\ MetricsReturned
  /\ Len(fnArgs.actual) = 1
  /\ Len(fnArgs.predicted) = 2
  /\ IsFin(fnResult.value.mse)
  /\ fnResult.value.mse.n > 0

(***************************************************************************)
(* Properties of a run of main (Spec).                                     *)
(***************************************************************************)
AllSteps ==
  <<"loadCSV", "prepareData", "trainModel", "predictPrices",
    "calculateErrorMetrics", "getNext30Weekdays", "predictPrices", "saveToCSV">>

\* prepareData has returned.
Prepared == Len(trace) >= 2

\* Both predictPrices calls have returned.
Predicted == Len(trace) >= 7

\* C2: the output file is written at most once, and only when every step
\* before it has completed; when a step throws, the catch has logged the
\* error and the output file is as it was before the run.
C2_AllOrNothing ==
  /\ writes <= 1
  /\ writes = 1 => trace = AllSteps /\ error = NoError /\ pc = "exit"
  /\ writes = 0 => outFile = OldFile /\ trace = SubSeq(AllSteps, 1, Len(trace))
                   /\ Len(trace) < Len(AllSteps)
  /\ error # NoError => writes = 0 /\ outFile = OldFile /\ pc = "exit"

\* A run that prepareData aborted.
C2_Witness ==
  /\ pc = "exit"
  /\ error = DataError
  /\ trace = <<"loadCSV">>
  /\ outFile = OldFile

IsBadRow(row) == row \in BadRows

\* C3: when a row of the input is bad (a date or a price that does not
\* parse, or a missing field), wherever it stands, prepareData throws "Data
\* contains NaN values" and the run ends there: no fit, nothing written.
C3_BadRowIsDataError ==
  (/\ file.readable
   /\ pc # "loadCSV" /\ pc # "prepareData"
   /\ \A i \in 1 .. Len(data) : data[i] \in GoodRows \cup BadRows
   /\ \E i \in 1 .. Len(data) : IsBadRow(data[i]))
  => /\ error = DataError
     /\ pc = "exit"
     /\ trace = <<"loadCSV">>
     /\ writes = 0

\* C4: in a run that reaches trainModel, xs and ys hold one defined number
\* per input row: no entry is NaN.
C4_NoNaNPastNormalization ==
  Prepared =>
    /\ Len(prep.xs) = Len(data)
    /\ Len(prep.ys) = Len(data)
    /\ \A i \in 1 .. Len(prep.xs) : IsFin(prep.xs[i])
    /\ \A i \in 1 .. Len(prep.ys) : IsFin(prep.ys[i])

\* The least and the greatest of a set of numbers; of no number at all,
\* Infinity and -Infinity.
Least(S) == IF S = {} THEN PosInf ELSE CHOOSE m \in S : \A x \in S : ~Less(x, m)
Greatest(S) == IF S = {} THEN NegInf ELSE CHOOSE m \in S : \A x \in S : ~Less(m, x)

SampleDates == {RowTimestamp(data[i], tz) : i \in 1 .. Len(data)}
SamplePrices == {RowPrice(data[i]) : i \in 1 .. Len(data)}

\* C5: once prepareData has returned, the four scaling parameters are the
\* minimum and maximum of the whole sample's dates and prices and stay so,
\* and every predictPrices call is passed exactly these four values.
C5_ScalingFixed ==
  Prepared =>
    /\ prep.minDate = Least(SampleDates)
    /\ prep.maxDate = Greatest(SampleDates)
    /\ prep.minPrice = Least(SamplePrices)
    /\ prep.maxPrice = Greatest(SamplePrices)
    /\ \A c \in 1 .. Len(calls) : calls[c] = Scaling(prep)
    /\ Predicted => Len(calls) = 2

\* Both calls made, on a sample whose dates and prices differ.
C5_Witness ==
  /\ Predicted
  /\ Len(calls) = 2
  /\ calls[1] = calls[2]
  /\ Less(prep.minDate, prep.maxDate)
  /\ Less(prep.minPrice, prep.maxPrice)

\* The dates main passes to the first predictPrices call (line 210).
TrainingDates ==
  [i \in 1 .. Len(prep.xs) |->
     Add(Mul(prep.xs[i], Sub(prep.maxDate, prep.minDate)), prep.minDate)]

\* What predictPrices must return for dates: entry i is the denormalized
\* prediction for dates[i], or 0 in place of NaN.
IsDegradedPrediction(out, dates) ==
  /\ Len(out) = Len(dates)
  /\ \A i \in 1 .. Len(dates) :
       LET value == PredictedValue(model, dates[i], prep.minDate, prep.maxDate,
                                   prep.minPrice, prep.maxPrice)
       IN  out[i] = IF value.k = "nan" THEN Zero ELSE value

NaNCount(dates) ==
  Cardinality({i \in 1 .. Len(dates) :
                 PredictedValue(model, dates[i], prep.minDate, prep.maxDate,
                                prep.minPrice, prep.maxPrice).k = "nan"})

\* C6: each predictPrices call returns one entry per date, the denormalized
\* prediction or 0 in place of NaN with one warning for each; a NaN makes no
\* call throw, and the run goes on to write the output file.
C6_NaNBecomesZero ==
  /\ Len(trace) >= 4 =>
       /\ IsDegradedPrediction(predictions, TrainingDates)
       /\ ~Predicted => warnings = NaNCount(TrainingDates)
  /\ Predicted =>
       /\ IsDegradedPrediction(futurePredictions, FutureDates(next30Weekdays))
       /\ warnings = NaNCount(TrainingDates) + NaNCount(FutureDates(next30Weekdays))
  /\ warnings > 0 => error \in {NoError, "EACCES"}
  /\ (warnings > 0 /\ pc = "exit" /\ outWritable) => writes = 1

\* A run whose predictions were all NaN: each was replaced by 0 with a
\* warning, and the file was written.
C6_Witness ==
  /\ pc = "exit"
  /\ writes = 1
  /\ Len(predictions) = 2
  /\ warnings = 32
  /\ \A i \in 1 .. Len(futurePredictions) : futurePredictions[i] = Zero

\* C7: a successful run writes the header Date, PredictedPrice, RMSE, MSE
\* and 30 rows; row i holds the i-th date of getNext30Weekdays, the i-th
\* future prediction and the run's one RMSE and one MSE, in that order.
C7_ThirtyRows ==
  writes = 1 =>
    /\ outFile.header = <<"Date", "PredictedPrice", "RMSE", "MSE">>
    /\ Len(outFile.rows) = 30
    /\ Len(next30Weekdays) = 30
    /\ Len(futurePredictions) = 30
    /\ \A i \in 1 .. 30 :
         outFile.rows[i] = <<next30Weekdays[i],
                             ToFixed2(futurePredictions[i]),
                             ToFixed2(metrics.rmse),
                             ToFixed2(metrics.mse)>>

\* A written file whose RMSE and MSE are numbers that differ.
C7_Witness ==
  /\ writes = 1
  /\ outFile.rows[1][3].text = "decimal"
  /\ outFile.rows[1][4].text = "decimal"
  /\ outFile.rows[1][3] # outFile.rows[1][4]
  /\ outFile.rows[1][2] # outFile.rows[30][2]

NonFinite(field) == field.text \in {"NaN", "Infinity", "-Infinity"}

\* C9 as stated: with a single input row, no PredictedPrice, RMSE or MSE
\* field of the written rows is a finite number.
C9_NonFiniteEverywhere ==
  (writes = 1 /\ Len(data) = 1) =>
    \A i \in 1 .. Len(outFile.rows) :
      /\ NonFinite(outFile.rows[i][2])
      /\ NonFinite(outFile.rows[i][3])
      /\ NonFinite(outFile.rows[i][4])

\* C9 amended: with a single input row, the RMSE and MSE fields of every
\* written row are NaN, and every PredictedPrice is the 0.00 that replaces
\* a NaN prediction, each with its warning (1 in-sample, 30 future).
C9_NaNMetricsZeroPrice ==
  (writes = 1 /\ Len(data) = 1) =>
    /\ warnings = 31
    /\ \A i \in 1 .. Len(outFile.rows) :
         /\ outFile.rows[i][2] = Decimal(0)
         /\ outFile.rows[i][3] = Text("NaN")
         /\ outFile.rows[i][4] = Text("NaN")

\* A single-row run that wrote its 30 rows.
C9_Witness ==
  /\ writes = 1
  /\ Len(data) = 1
  /\ Len(outFile.rows) = 30

====
